---- MODULE Spec2Model ----
(***************************************************************************)
(* Inventory / point-of-sale server: the SQLite store (products, images,   *)
(* reviews, wishlist, receipts, receipt items, categories), the storage    *)
(* layer with its catalog, listing and analytics queries                   *)
(* (server/sqlite-storage.ts) and the HTTP handlers (server/routes.ts).    *)
(* Every handler awaits only synchronous better-sqlite3 calls, so one      *)
(* request is one atomic step; concurrency is the interleaving of          *)
(* requests of several clients.                                            *)
(***************************************************************************)
EXTENDS Integers, Sequences, FiniteSets, TLC

(***************************************************************************)
(* Bounds of the exploration.                                              *)
(***************************************************************************)
MaxProductId == 2       \* product rows ever inserted
MaxReceiptId == 2       \* receipt headers ever inserted
MaxItemId == 2          \* receipt item rows ever inserted
MaxImageId == 1         \* product image rows ever inserted
MaxReviewId == 1        \* product review rows ever inserted
MaxWishlistId == 2      \* wishlist rows ever inserted
StartYear == 2025       \* the year the clock starts in
YearSpan == 1           \* years the clock may advance
MaxBulk == 12           \* dense stores of 0..MaxBulk products are drawn
MaxItemsPerReceipt == 2 \* line items in one receipt request
MaxNow == 1             \* ticks the clock may advance
MaxCatalog == 3         \* products in a drawn catalog store
MaxListed == 5          \* small stores of 0..MaxListed products are listed
MaxCategories == 1      \* category rows ever inserted after the seeded ones

Clients == {"c1", "c2"}
Roles == {"admin", "viewer"}

(***************************************************************************)
(* Strings are sequences of one-character strings.                         *)
(***************************************************************************)
DigitChars == <<"0", "1", "2", "3", "4", "5", "6", "7", "8", "9">>

ELC == <<"E", "L", "C">>
CLT == <<"C", "L", "T">>
FNB == <<"F", "N", "B">>
HOM == <<"H", "O", "M">>
BKS == <<"B", "K", "S">>
TOY == <<"T", "O", "Y">>
N1 == <<"n", "1">>
N2 == <<"n", "2">>
Dash == <<"-">>

\* String(n) of a non-negative integer: its decimal digits
RECURSIVE String(_)
String(n) ==
    IF n < 10 THEN <<DigitChars[n + 1]>>
    ELSE String(n \div 10) \o <<DigitChars[(n % 10) + 1]>>

\* a mutant of padStart: pads, and cuts a longer string down to the width
padStartTruncating(s, targetLength, padChar) ==
    IF Len(s) >= targetLength
    THEN SubSeq(s, Len(s) - targetLength + 1, Len(s))
    ELSE [i \in 1..(targetLength - Len(s)) |-> padChar] \o s

\* String.prototype.padStart with a one-character pad string
padStart(s, targetLength, padChar) ==
    IF Len(s) >= targetLength THEN s
    ELSE [i \in 1..(targetLength - Len(s)) |-> padChar] \o s

(***************************************************************************)
(* State.                                                                  *)
(***************************************************************************)
VARIABLES
    products,        \* table products: set of rows
    productImages,   \* table product_images
    productReviews,  \* table product_reviews
    wishlist,        \* table wishlist
    receipts,        \* table receipts
    receiptItems,    \* table receipt_items
    categories,      \* table categories
    seq,             \* sqlite_sequence: last AUTOINCREMENT id per table
    year,            \* new Date().getFullYear()
    now,             \* new Date(), in ticks
    generatedSku,    \* per client: the SKU its product form holds
    resp,            \* the response (and caught error) of the last request
    json,            \* the value the last request passed to res.json
    req,             \* the parameters of the last listing request
    calls,           \* storage.addToWishlist calls suspended at their await
    appState,        \* client App: useState<AppState>
    user,            \* client App: useState<User | null>, {} for null
    loggingOut,      \* client App: handleLogout calls awaiting their fetch
    session          \* req.session.user of the browser's session, {} for none

store == <<products, productImages, productReviews, wishlist, receipts,
           receiptItems, categories, seq>>
client == <<appState, user, loggingOut, session>>
vars == <<products, productImages, productReviews, wishlist, receipts,
          receiptItems, categories, seq, year, now, generatedSku, resp, json,
          req, calls, appState, user, loggingOut, session>>

Years == StartYear..(StartYear + YearSpan)

Tables == {"products", "product_images", "product_reviews", "wishlist",
           "receipts", "receipt_items", "categories"}

\* op: the handler; status: the HTTP status; error: what the handler's catch
\* block caught; inserts: calls of storage.createProduct the handler made;
\* fromGenerator: the request carried the SKU its client got from
\* POST /api/generate-sku
Respond(op, status, error, inserts, fromGenerator) ==
    [op |-> op, status |-> status, error |-> error, inserts |-> inserts,
     fromGenerator |-> fromGenerator]

NoResp == Respond("none", 0, "none", 0, FALSE)

\* a response whose body no property reads
NoJson == <<>>

\* the rows that the INSERT OR IGNORE INTO categories of init-db.ts seeds
SeededCategories ==
    {[id |-> 1, name |-> "Electronics", code |-> ELC],
     [id |-> 2, name |-> "Clothing", code |-> CLT],
     [id |-> 3, name |-> "Food & Beverage", code |-> FNB],
     [id |-> 4, name |-> "Home & Garden", code |-> HOM],
     [id |-> 5, name |-> "Books", code |-> BKS],
     [id |-> 6, name |-> "Toys", code |-> TOY]}

Init ==
    /\ products = {}
    /\ productImages = {}
    /\ productReviews = {}
    /\ wishlist = {}
    /\ receipts = {}
    /\ receiptItems = {}
    /\ categories = SeededCategories
    /\ seq = [t \in Tables |-> IF t = "categories" THEN 6 ELSE 0]
    /\ year = StartYear
    /\ now = 0
    /\ generatedSku = [c \in Clients |-> <<>>]
    /\ resp = NoResp
    /\ json = NoJson
    /\ req = NoJson
    /\ calls = {}
    /\ appState = "loading"
    /\ user = {}
    /\ loggingOut = 0
    /\ session = {}

(***************************************************************************)
(* Storage layer, products.                                                *)
(***************************************************************************)
\* a mutant of the UNIQUE constraint on products.sku: never violated
SkuUniqueViolatedNever(sku, exceptId) == FALSE

\* products.sku UNIQUE: a row other than exceptId already holds sku
SkuUniqueViolated(sku, exceptId) ==
    \E p \in products : p.sku = sku /\ p.id # exceptId

\* the row that insert into products ... returning() yields: description,
\* brand and tags are NULL ({}) when not given, is_active defaults to true,
\* is_featured to false, created_at to the clock
ProductRow(id, body, sku, createdAt) ==
    [id |-> id, name |-> body.name, sku |-> sku, category |-> body.category,
     price |-> body.price, stockQuantity |-> body.stockQuantity,
     description |-> body.description, brand |-> body.brand, tags |-> body.tags,
     isActive |-> IF body.isActive = {} THEN TRUE
                  ELSE CHOOSE b \in body.isActive : TRUE,
     isFeatured |-> IF body.isFeatured = {} THEN FALSE
                    ELSE CHOOSE b \in body.isFeatured : TRUE,
     createdAt |-> createdAt]

\* a mutant of CountByCategory: the SKUs that the product forms hold for
\* the category count as taken numbers
CountByCategoryAndHeld(category) ==
    Cardinality({p \in products : p.category = category})
    + Cardinality({c \in Clients :
            /\ Len(generatedSku[c]) > Len(category)
            /\ SubSeq(generatedSku[c], 1, Len(category)) = category})

\* select count(*) from products where category = ?
CountByCategory(category) ==
    Cardinality({p \in products : p.category = category})

\* DatabaseStorage.generateSku
generateSku(category) ==
    LET nextNumber == CountByCategory(category) + 1
    IN  category \o Dash \o padStart(String(nextNumber), 3, "0")
            \o Dash \o String(year)

\* requireAdmin
IsAdmin(role) == role = "admin"

\* insertProductSchema: name, sku and category are strings of length >= 1
ValidProduct(body) ==
    /\ Len(body.name) >= 1
    /\ Len(body.sku) >= 1
    /\ Len(body.category) >= 1
    /\ body.stockQuantity >= 0

\* insertProductSchema.partial(): a field that is given must be valid
ValidPatch(patch) ==
    /\ \A n \in patch.name : Len(n) >= 1
    /\ \A s \in patch.sku : Len(s) >= 1
    /\ \A c \in patch.category : Len(c) >= 1
    /\ \A q \in patch.stockQuantity : q >= 0

\* update products set ... : the row p with the given columns replaced
ApplyPatch(p, patch) ==
    [id |-> p.id,
     name |-> IF patch.name = {} THEN p.name ELSE CHOOSE n \in patch.name : TRUE,
     sku |-> IF patch.sku = {} THEN p.sku ELSE CHOOSE s \in patch.sku : TRUE,
     category |-> IF patch.category = {} THEN p.category
                  ELSE CHOOSE c \in patch.category : TRUE,
     price |-> IF patch.price = {} THEN p.price
               ELSE CHOOSE x \in patch.price : TRUE,
     stockQuantity |-> IF patch.stockQuantity = {} THEN p.stockQuantity
                       ELSE CHOOSE q \in patch.stockQuantity : TRUE,
     description |-> IF patch.description = {} THEN p.description
                     ELSE patch.description,
     brand |-> IF patch.brand = {} THEN p.brand ELSE patch.brand,
     tags |-> IF patch.tags = {} THEN p.tags ELSE patch.tags,
     isActive |-> IF patch.isActive = {} THEN p.isActive
                  ELSE CHOOSE b \in patch.isActive : TRUE,
     isFeatured |-> IF patch.isFeatured = {} THEN p.isFeatured
                    ELSE CHOOSE b \in patch.isFeatured : TRUE,
     createdAt |-> p.createdAt]

\* FOREIGN KEY (product_id) REFERENCES products(id) of receipt_items, which
\* has no ON DELETE action: the parent row cannot go while a child remains
ProductReferenced(id) == \E it \in receiptItems : it.productId = id

(***************************************************************************)
(* Handlers, products.                                                     *)
(***************************************************************************)
\* POST /api/generate-sku, and the product form's onSuccess
GenerateSkuReq(c, role, category) ==
    /\ IF ~IsAdmin(role)
       THEN /\ resp' = Respond("generateSku", 403, "none", 0, FALSE)
            /\ UNCHANGED generatedSku
       ELSE IF category = <<>>
       THEN /\ resp' = Respond("generateSku", 400, "none", 0, FALSE)
            /\ UNCHANGED generatedSku
       ELSE /\ resp' = Respond("generateSku", 200, "none", 0, FALSE)
            /\ generatedSku' = [generatedSku EXCEPT ![c] = generateSku(category)]
    /\ json' = NoJson
    /\ UNCHANGED <<store, year, calls, client, now, req>>

\* POST /api/products, and the product form's onSuccess
CreateProductReq(c, role, body) ==
    LET fromGen == body.sku # <<>> /\ body.sku = generatedSku[c]
        \* if (!productData.sku) productData.sku = generateSku(category)
        sku == IF body.sku = <<>> THEN generateSku(body.category) ELSE body.sku
        row == ProductRow(seq["products"] + 1, body, sku, now)
    IN
    /\ IF ~IsAdmin(role)
       THEN /\ resp' = Respond("createProduct", 403, "none", 0, fromGen)
            /\ UNCHANGED <<products, seq, generatedSku>>
       ELSE IF ~ValidProduct(body)
       THEN /\ resp' = Respond("createProduct", 400, "zod", 0, fromGen)
            /\ UNCHANGED <<products, seq, generatedSku>>
       ELSE IF SkuUniqueViolated(sku, 0)
       THEN /\ resp' = Respond("createProduct", 500, "unique", 1, fromGen)
            /\ UNCHANGED <<products, seq, generatedSku>>
       ELSE /\ seq["products"] < MaxProductId
            /\ products' = products \cup {row}
            /\ seq' = [seq EXCEPT !["products"] = row.id]
            /\ generatedSku' = [generatedSku EXCEPT ![c] = <<>>]
            /\ resp' = Respond("createProduct", 201, "none", 1, fromGen)
    /\ json' = NoJson
    /\ UNCHANGED <<productImages, productReviews, wishlist, receipts,
                   receiptItems, categories, year, calls, client, now, req>>

\* PUT /api/products/:id (no requireAdmin on this route)
UpdateProductReq(role, id, patch) ==
    /\ IF ~ValidPatch(patch)
       THEN /\ resp' = Respond("updateProduct", 400, "zod", 0, FALSE)
            /\ UNCHANGED products
       ELSE IF ~\E p \in products : p.id = id
       THEN /\ resp' = Respond("updateProduct", 404, "none", 0, FALSE)
            /\ UNCHANGED products
       ELSE LET old == CHOOSE p \in products : p.id = id
                new == ApplyPatch(old, patch)
            IN  IF SkuUniqueViolated(new.sku, id)
                THEN /\ resp' = Respond("updateProduct", 500, "unique", 0, FALSE)
                     /\ UNCHANGED products
                ELSE /\ products' = (products \ {old}) \cup {new}
                     /\ resp' = Respond("updateProduct", 200, "none", 0, FALSE)
    /\ json' = NoJson
    /\ UNCHANGED <<productImages, productReviews, wishlist, receipts,
                   receiptItems, categories, seq, year, calls, client, now, req,
                   generatedSku>>

\* DELETE /api/products/:id
DeleteProductReq(role, id) ==
    /\ IF ~IsAdmin(role)
       THEN /\ resp' = Respond("deleteProduct", 403, "none", 0, FALSE)
            /\ UNCHANGED <<products, productImages, productReviews, wishlist>>
       ELSE IF ~\E p \in products : p.id = id
       THEN /\ resp' = Respond("deleteProduct", 404, "none", 0, FALSE)
            /\ UNCHANGED <<products, productImages, productReviews, wishlist>>
       ELSE IF ProductReferenced(id)
       THEN /\ resp' = Respond("deleteProduct", 500, "foreign key", 0, FALSE)
            /\ UNCHANGED <<products, productImages, productReviews, wishlist>>
       ELSE /\ products' = {p \in products : p.id # id}
            /\ productImages' = {r \in productImages : r.productId # id}
            /\ productReviews' = {r \in productReviews : r.productId # id}
            /\ wishlist' = {r \in wishlist : r.productId # id}
            /\ resp' = Respond("deleteProduct", 200, "none", 0, FALSE)
    /\ json' = NoJson
    /\ UNCHANGED <<receipts, receiptItems, categories, seq, year, calls, client,
                   now, req, generatedSku>>

(***************************************************************************)
(* Storage layer and handlers, receipts.  Amounts are integers; taxRate    *)
(* and discountRate are in percent.                                        *)
(***************************************************************************)
\* insertReceiptSchema: the NOT NULL columns without default are required
ValidReceipt(receipt) ==
    /\ receipt.receiptNumber # {}
    /\ receipt.totalAmount # {}

\* insertReceiptItemSchema: quantity is a required number
ValidReceiptItem(item) == item.quantity # {}

\* receipts.receipt_number UNIQUE
ReceiptNumberTaken(receiptNumber) ==
    \E r \in receipts : r.receiptNumber = receiptNumber

\* the header row that insert into receipts ... returning() yields
ReceiptRow(receipt, id) ==
    [id |-> id,
     receiptNumber |-> CHOOSE n \in receipt.receiptNumber : TRUE,
     subtotal |-> receipt.subtotal,
     taxRate |-> receipt.taxRate,
     taxAmount |-> receipt.taxAmount,
     discountRate |-> receipt.discountRate,
     discountAmount |-> receipt.discountAmount,
     totalAmount |-> CHOOSE t \in receipt.totalAmount : TRUE]

\* a mutant of ReceiptItemRow: { receiptId: newReceipt.id, ...item }
ReceiptItemRowClientReceiptId(item, receiptId, id) ==
    [id |-> id, receiptId |-> item.receiptId, productId |-> item.productId,
     productName |-> item.productName, productSku |-> item.productSku,
     quantity |-> CHOOSE q \in item.quantity : TRUE,
     unitPrice |-> item.unitPrice, totalPrice |-> item.totalPrice]

\* { ...item, receiptId: newReceipt.id }
ReceiptItemRow(item, receiptId, id) ==
    [id |-> id, receiptId |-> receiptId, productId |-> item.productId,
     productName |-> item.productName, productSku |-> item.productSku,
     quantity |-> CHOOSE q \in item.quantity : TRUE,
     unitPrice |-> item.unitPrice, totalPrice |-> item.totalPrice]

\* FOREIGN KEY (product_id) REFERENCES products(id) on insert
ProductExists(id) == \E p \in products : p.id = id

\* the for loop of createReceipt stops at the first insert that throws:
\* the index of that item, Len(items) + 1 when none throws
FirstRejected(items) ==
    LET bad == {i \in 1..Len(items) : ~ProductExists(items[i].productId)}
    IN  IF bad = {} THEN Len(items) + 1
        ELSE CHOOSE i \in bad : \A j \in bad : i <= j

\* POST /api/receipts with DatabaseStorage.createReceipt
CreateReceiptReq(role, body) ==
    LET newId == seq["receipts"] + 1
        stop == FirstRejected(body.items)
        rows == {ReceiptItemRow(body.items[i], newId, seq["receipt_items"] + i) :
                    i \in 1..(stop - 1)}
    IN
    /\ IF ~IsAdmin(role)
       THEN /\ resp' = Respond("createReceipt", 403, "none", 0, FALSE)
            /\ UNCHANGED <<receipts, receiptItems, seq>>
       ELSE IF \/ ~ValidReceipt(body.receipt)
               \/ \E i \in 1..Len(body.items) : ~ValidReceiptItem(body.items[i])
       THEN /\ resp' = Respond("createReceipt", 400, "zod", 0, FALSE)
            /\ UNCHANGED <<receipts, receiptItems, seq>>
       ELSE IF \E n \in body.receipt.receiptNumber : ReceiptNumberTaken(n)
       THEN /\ resp' = Respond("createReceipt", 500, "unique", 0, FALSE)
            /\ UNCHANGED <<receipts, receiptItems, seq>>
       ELSE /\ seq["receipts"] < MaxReceiptId
            /\ seq["receipt_items"] + Len(body.items) <= MaxItemId
            /\ receipts' = receipts \cup {ReceiptRow(body.receipt, newId)}
            /\ receiptItems' = receiptItems \cup rows
            /\ seq' = [seq EXCEPT !["receipts"] = newId,
                                  !["receipt_items"] = @ + (stop - 1)]
            /\ resp' = IF stop <= Len(body.items)
                       THEN Respond("createReceipt", 500, "foreign key", 0, FALSE)
                       ELSE Respond("createReceipt", 201, "none", 0, FALSE)
    /\ json' = NoJson
    /\ UNCHANGED <<products, productImages, productReviews, wishlist,
                   categories, year, calls, client, now, req, generatedSku>>

(***************************************************************************)
(* Storage layer: images, reviews, wishlist.                               *)
(***************************************************************************)
\* DatabaseStorage.addProductImage
AddProductImage(productId) ==
    /\ IF ~ProductExists(productId)
       THEN /\ resp' = Respond("addProductImage", 0, "foreign key", 0, FALSE)
            /\ UNCHANGED <<productImages, seq>>
       ELSE /\ seq["product_images"] < MaxImageId
            /\ productImages' = productImages \cup
                    {[id |-> seq["product_images"] + 1, productId |-> productId]}
            /\ seq' = [seq EXCEPT !["product_images"] = @ + 1]
            /\ resp' = Respond("addProductImage", 0, "none", 0, FALSE)
    /\ json' = NoJson
    /\ UNCHANGED <<products, productReviews, wishlist, receipts, receiptItems,
                   categories, year, calls, client, now, req, generatedSku>>

\* DatabaseStorage.addProductReview
AddProductReview(productId) ==
    /\ IF ~ProductExists(productId)
       THEN /\ resp' = Respond("addProductReview", 0, "foreign key", 0, FALSE)
            /\ UNCHANGED <<productReviews, seq>>
       ELSE /\ seq["product_reviews"] < MaxReviewId
            /\ productReviews' = productReviews \cup
                    {[id |-> seq["product_reviews"] + 1, productId |-> productId]}
            /\ seq' = [seq EXCEPT !["product_reviews"] = @ + 1]
            /\ resp' = Respond("addProductReview", 0, "none", 0, FALSE)
    /\ json' = NoJson
    /\ UNCHANGED <<products, productImages, wishlist, receipts, receiptItems,
                   categories, year, calls, client, now, req, generatedSku>>

\* a mutant of WishlistExisting: the check for an existing row finds none
WishlistExistingNone(sessionId, productId) == {}

\* select from wishlist where session_id = ? and product_id = ?
WishlistExisting(sessionId, productId) ==
    {w \in wishlist : w.sessionId = sessionId /\ w.productId = productId}

\* POST /api/catalog/wishlist with DatabaseStorage.addToWishlist
AddToWishlistReq(sessionId, productId) ==
    /\ IF sessionId = "" \/ productId = 0
       THEN /\ resp' = Respond("addToWishlist", 400, "none", 0, FALSE)
            /\ json' = NoJson
            /\ UNCHANGED <<wishlist, seq>>
       ELSE IF WishlistExisting(sessionId, productId) # {}
       THEN /\ resp' = Respond("addToWishlist", 200, "none", 0, FALSE)
            /\ json' = CHOOSE w \in WishlistExisting(sessionId, productId) : TRUE
            /\ UNCHANGED <<wishlist, seq>>
       ELSE IF ~ProductExists(productId)
       THEN /\ resp' = Respond("addToWishlist", 500, "foreign key", 0, FALSE)
            /\ json' = NoJson
            /\ UNCHANGED <<wishlist, seq>>
       ELSE LET row == [id |-> seq["wishlist"] + 1, sessionId |-> sessionId,
                        productId |-> productId, createdAt |-> now]
            IN  /\ seq["wishlist"] < MaxWishlistId
                /\ wishlist' = wishlist \cup {row}
                /\ seq' = [seq EXCEPT !["wishlist"] = @ + 1]
                /\ resp' = Respond("addToWishlist", 200, "none", 0, FALSE)
                /\ json' = row
    /\ UNCHANGED <<products, productImages, productReviews, receipts,
                   receiptItems, categories, year, calls, client, now, req, generatedSku>>

\* a mutant of RemoveFromWishlistReq: the answer is success whether or not
\* the delete changed a row
RemoveFromWishlistReqAlwaysSuccess(sessionId, productId) ==
    /\ IF sessionId = ""
       THEN /\ resp' = Respond("removeFromWishlist", 400, "none", 0, FALSE)
            /\ json' = NoJson
            /\ UNCHANGED wishlist
       ELSE /\ wishlist' = wishlist \ WishlistExisting(sessionId, productId)
            /\ resp' = Respond("removeFromWishlist", 200, "none", 0, FALSE)
            /\ json' = [success |-> TRUE]
    /\ UNCHANGED <<products, productImages, productReviews, receipts,
                   receiptItems, categories, seq, year, calls, client, now,
                   req, generatedSku>>

\* DELETE /api/catalog/wishlist/:productId with removeFromWishlist
RemoveFromWishlistReq(sessionId, productId) ==
    /\ IF sessionId = ""
       THEN /\ resp' = Respond("removeFromWishlist", 400, "none", 0, FALSE)
            /\ json' = NoJson
            /\ UNCHANGED wishlist
       ELSE /\ wishlist' = wishlist \ WishlistExisting(sessionId, productId)
            /\ resp' = Respond("removeFromWishlist", 200, "none", 0, FALSE)
            /\ json' = [success |-> WishlistExisting(sessionId, productId) # {}]
    /\ UNCHANGED <<products, productImages, productReviews, receipts,
                   receiptItems, categories, seq, year, calls, client, now, req,
                   generatedSku>>

\* DatabaseStorage.addToWishlist up to its first await: the select of the
\* existing row has run and the call is suspended with its result; a call
\* that found a row returns it, a call that found none goes on to insert
AddToWishlistSelect(c, sessionId, productId) ==
    /\ \A call \in calls : call.client # c
    /\ IF sessionId = "" \/ productId = 0
       THEN /\ resp' = Respond("addToWishlist", 400, "none", 0, FALSE)
            /\ json' = NoJson
            /\ UNCHANGED calls
       ELSE IF WishlistExisting(sessionId, productId) # {}
       THEN /\ resp' = Respond("addToWishlist", 200, "none", 0, FALSE)
            /\ json' = CHOOSE w \in WishlistExisting(sessionId, productId) : TRUE
            /\ UNCHANGED calls
       ELSE /\ calls' = calls \cup {[client |-> c, sessionId |-> sessionId,
                                     productId |-> productId]}
            /\ UNCHANGED <<resp, json>>
    /\ UNCHANGED <<store, year, now, req, generatedSku, client>>

\* DatabaseStorage.addToWishlist after the await: the call that found no
\* row inserts one and the route answers with it
AddToWishlistInsert(c) ==
    /\ \E suspended \in calls : suspended.client = c
    /\ LET call == CHOOSE suspended \in calls : suspended.client = c
       IN  /\ calls' = calls \ {call}
           /\ IF ~ProductExists(call.productId)
              THEN /\ resp' = Respond("addToWishlist", 500, "foreign key", 0,
                                      FALSE)
                   /\ json' = NoJson
                   /\ UNCHANGED <<wishlist, seq>>
              ELSE LET row == [id |-> seq["wishlist"] + 1,
                               sessionId |-> call.sessionId,
                               productId |-> call.productId,
                               createdAt |-> now]
                   IN  /\ seq["wishlist"] < MaxWishlistId
                       /\ wishlist' = wishlist \cup {row}
                       /\ seq' = [seq EXCEPT !["wishlist"] = @ + 1]
                       /\ resp' = Respond("addToWishlist", 200, "none", 0,
                                          FALSE)
                       /\ json' = row
    /\ UNCHANGED <<products, productImages, productReviews, receipts,
                   receiptItems, categories, year, now, req, generatedSku,
                   client>>

\* the clock passes into the next year
NewYear ==
    /\ year + 1 \in Years
    /\ year' = year + 1
    /\ UNCHANGED <<store, now, calls, client, generatedSku, resp, json, req>>

(***************************************************************************)
(* Requests the clients send.                                              *)
(***************************************************************************)
X1 == <<"X", "1">>
X2 == <<"X", "2">>

CategoryCodes == {ELC, TOY}
ProductIds == 1..MaxProductId

\* an optional field: {} when absent, {v} when given
Opt(S) == {{}} \cup {{v} : v \in S}

\* the product form sends data.sku || generatedSku
\* a request body of the product form with its optional fields left out
ProductBody(name, sku, category, price) ==
    [name |-> name, sku |-> sku, category |-> category, price |-> price,
     stockQuantity |-> 0, description |-> {}, brand |-> {}, tags |-> {},
     isActive |-> {}, isFeatured |-> {}]

\* an update that names no field
NoPatch ==
    [name |-> {}, sku |-> {}, category |-> {}, price |-> {},
     stockQuantity |-> {}, description |-> {}, brand |-> {}, tags |-> {},
     isActive |-> {}, isFeatured |-> {}]

SkuBodies(c) == {ProductBody(N1, sku, ELC, 8) : sku \in {generatedSku[c], X1}}

SkuPatches ==
    {[NoPatch EXCEPT !.sku = {sku}] :
        sku \in {generatedSku[c] : c \in Clients} \cup {X1}}

\* the product workflow: SKU generation, create, update, delete
Next ==
    \/ \E c \in Clients, role \in Roles, category \in {ELC, <<>>} :
            GenerateSkuReq(c, role, category)
    \/ \E c \in Clients, role \in Roles :
            \E body \in SkuBodies(c) : CreateProductReq(c, role, body)
    \/ \E role \in Roles, id \in ProductIds, patch \in SkuPatches :
            UpdateProductReq(role, id, patch)
    \/ \E role \in Roles, id \in ProductIds : DeleteProductReq(role, id)

Spec == Init /\ [][Next]_vars

(***************************************************************************)
(* The generator on its own: every product is created with the SKU that    *)
(* generateSku returns for its category at that moment; products are       *)
(* deleted and moved between categories.                                   *)
(***************************************************************************)
NextGen ==
    \/ \E c \in Clients, category \in CategoryCodes :
            CreateProductReq(c, "admin",
                ProductBody(N1, generateSku(category), category, 8))
    \/ \E id \in ProductIds, category \in CategoryCodes :
            UpdateProductReq("admin", id,
                [NoPatch EXCEPT !.category = {category}])
    \/ \E id \in ProductIds : DeleteProductReq("admin", id)
    \/ NewYear

SpecGen == Init /\ [][NextGen]_vars

(***************************************************************************)
(* The generator over stores of many sizes.  A store of n products, the    *)
(* first k of them in category ELC and the others in TOY, each created     *)
(* with a manual SKU M<id>.                                                *)
(***************************************************************************)
BulkStore(n, k) ==
    {ProductRow(i, ProductBody(N1, <<"M">> \o String(i),
                               IF i <= k THEN ELC ELSE TOY, 8),
                <<"M">> \o String(i), 0) : i \in 1..n}

BulkSizes == (0..MaxBulk) \cup {99, 100, 999, 1000}

InitSku ==
    /\ \E n \in BulkSizes, k \in 0..1 :
            /\ products = BulkStore(n, n - k)
            /\ seq = [t \in Tables |-> IF t = "products" THEN n
                                       ELSE IF t = "categories" THEN 6 ELSE 0]
    /\ productImages = {}
    /\ productReviews = {}
    /\ wishlist = {}
    /\ receipts = {}
    /\ receiptItems = {}
    /\ categories = SeededCategories
    /\ year \in Years
    /\ now = 0
    /\ generatedSku = [c \in Clients |-> <<>>]
    /\ resp = NoResp
    /\ json = NoJson
    /\ req = NoJson
    /\ calls = {}
    /\ appState = "loading"
    /\ user = {}
    /\ loggingOut = 0
    /\ session = {}

NextSku ==
    \/ \E role \in Roles, category \in CategoryCodes \cup {<<>>} :
            GenerateSkuReq("c1", role, category)
    \/ \E id \in ProductIds : DeleteProductReq("admin", id)
    \/ NewYear

SpecSku == InitSku /\ [][NextSku]_vars

(***************************************************************************)
(* Receipts.                                                               *)
(***************************************************************************)
\* a line item as the receipt form builds it: totalPrice = price * quantity
Item(productId, quantity, unitPrice) ==
    [receiptId |-> 1, productId |-> productId, productName |-> N1,
     productSku |-> X1, quantity |-> quantity, unitPrice |-> unitPrice,
     totalPrice |-> IF quantity = {} THEN 0
                    ELSE unitPrice * (CHOOSE q \in quantity : TRUE)]

RECURSIVE SumTotalPrice(_)
SumTotalPrice(items) ==
    IF items = <<>> THEN 0
    ELSE Head(items).totalPrice + SumTotalPrice(Tail(items))

\* calculateTotals of the receipt form, rates in percent
calculateTotals(items, taxRate, discountRate) ==
    LET subtotal == SumTotalPrice(items)
        discountAmount == (subtotal * discountRate) \div 100
        taxableAmount == subtotal - discountAmount
        taxAmount == (taxableAmount * taxRate) \div 100
    IN  [subtotal |-> subtotal, discountAmount |-> discountAmount,
         taxAmount |-> taxAmount, total |-> taxableAmount + taxAmount]

\* the request body the receipt form sends; a client is free to send any
\* totalAmount, or none
ReceiptBody(receiptNumber, items, totalAmount) ==
    LET totals == calculateTotals(items, 50, 50)
    IN  [receipt |-> [receiptNumber |-> {receiptNumber},
                      subtotal |-> totals.subtotal, taxRate |-> 50,
                      taxAmount |-> totals.taxAmount, discountRate |-> 50,
                      discountAmount |-> totals.discountAmount,
                      totalAmount |-> totalAmount],
         items |-> items]

\* lists of well-formed items of existing or missing products, and lists
\* with a zero quantity, a negative price or a missing quantity
ItemLists ==
    UNION {[1..n -> {Item(id, {2}, 8) : id \in ProductIds}] :
              n \in 0..MaxItemsPerReceipt}
    \cup {<<Item(1, {0}, 8)>>, <<Item(1, {2}, -4)>>, <<Item(1, {}, 8)>>,
          <<Item(1, {2}, 8), Item(1, {0}, 8)>>,
          <<Item(1, {2}, 8), Item(1, {}, 8)>>}

ReceiptBodies ==
    {ReceiptBody(n, items, {calculateTotals(items, 50, 50).total}) :
        n \in {"R1", "R2"}, items \in ItemLists}
    \cup {ReceiptBody("R1", items, t) : items \in ItemLists, t \in {{}, {1}}}

StoreBodies == {ProductBody(N1, sku, ELC, 8) : sku \in {X1, X2}}

StorePatches == {[NoPatch EXCEPT !.name = {N2}, !.price = {4}]}

NextReceipts ==
    \/ \E c \in Clients, role \in Roles, body \in StoreBodies :
            CreateProductReq(c, role, body)
    \/ \E role \in Roles, id \in ProductIds, patch \in StorePatches :
            UpdateProductReq(role, id, patch)
    \/ \E role \in Roles, id \in ProductIds : DeleteProductReq(role, id)
    \/ \E role \in Roles, body \in ReceiptBodies : CreateReceiptReq(role, body)

SpecReceipts == Init /\ [][NextReceipts]_vars

(***************************************************************************)
(* The history of sales: receipts of well-formed items, and the products   *)
(* they name created, renamed, repriced and deleted afterwards.            *)
(***************************************************************************)
HistoryBodies ==
    {ReceiptBody(n, items, {calculateTotals(items, 50, 50).total}) :
        n \in {"R1", "R2"},
        items \in {<<>>, <<Item(1, {2}, 8)>>, <<Item(2, {2}, 8)>>,
                   <<Item(1, {2}, 8), Item(2, {2}, 8)>>}}

NextHistory ==
    \/ \E body \in StoreBodies : CreateProductReq("c1", "admin", body)
    \/ \E id \in ProductIds, patch \in StorePatches :
            UpdateProductReq("viewer", id, patch)
    \/ \E id \in ProductIds : DeleteProductReq("admin", id)
    \/ \E body \in HistoryBodies : CreateReceiptReq("admin", body)

SpecHistory == Init /\ [][NextHistory]_vars

(***************************************************************************)
(* Deleting products that own images, reviews and wishlist rows and that   *)
(* receipts refer to.                                                      *)
(***************************************************************************)
Sessions == {"s1"}

NextDelete ==
    \/ \E c \in Clients, body \in StoreBodies : CreateProductReq(c, "admin", body)
    \/ \E id \in ProductIds : DeleteProductReq("admin", id)
    \/ \E id \in ProductIds : AddProductImage(id)
    \/ \E id \in ProductIds : AddProductReview(id)
    \/ \E sessionId \in Sessions \cup {""}, id \in ProductIds :
            AddToWishlistReq(sessionId, id)
    \/ \E id \in ProductIds :
            CreateReceiptReq("admin", ReceiptBody("R1", <<Item(id, {2}, 8)>>, {8}))

SpecDelete == Init /\ [][NextDelete]_vars

(***************************************************************************)
(* Properties.                                                             *)
(***************************************************************************)
NoDuplicateSku == \A p, q \in products : p.sku = q.sku => p = q

\* a create or an update whose SKU another stored product holds changes
\* nothing and is not answered with success
DuplicateRejected ==
    /\ \A c \in Clients, role \in Roles :
          \A body \in SkuBodies(c) :
            (/\ \E p \in products : p.sku = body.sku
             /\ CreateProductReq(c, role, body))
                => products' = products /\ resp'.status \notin {200, 201}
    /\ \A role \in Roles, id \in ProductIds, patch \in SkuPatches :
            (/\ \E p \in products : p.id # id /\ patch.sku = {p.sku}
             /\ UpdateProductReq(role, id, patch))
                => products' = products /\ resp'.status \notin {200, 201}

\* C1: under every interleaving of create, update and delete requests, also
\* when two clients hold the same generated SKU, no two stored products have
\* the same sku, and a create or update that would duplicate a stored sku is
\* rejected and leaves the products table unchanged.
C1_SkuUnique == []NoDuplicateSku /\ [][DuplicateRejected]_vars

\* two clients got the same generated SKU, one created its product, and the
\* other's create was rejected by the UNIQUE constraint
C1_Witness ==
    /\ resp.op = "createProduct"
    /\ resp.error = "unique"
    /\ resp.fromGenerator
    /\ \E c \in Clients, p \in products : p.sku = generatedSku[c]

\* C2: concurrent generateSku calls against a category without products
\* return pairwise distinct SKUs.  (No product was ever created, so every
\* SKU a client holds was generated against the empty category ELC.)
C2_ConcurrentSkusDistinct ==
    seq["products"] = 0 =>
        \A c, d \in Clients :
            (c # d /\ generatedSku[c] # <<>> /\ generatedSku[d] # <<>>)
                => generatedSku[c] # generatedSku[d]

IsDigit(ch) == \E d \in 1..10 : DigitChars[d] = ch

DigitValue(ch) == (CHOOSE d \in 1..10 : DigitChars[d] = ch) - 1

\* the number a sequence of decimal digits denotes
RECURSIVE DecimalValue(_)
DecimalValue(s) ==
    IF s = <<>> THEN 0
    ELSE 10 * DecimalValue(SubSeq(s, 1, Len(s) - 1)) + DigitValue(s[Len(s)])

\* s reads C-NNN-YYYY: NNN is n in decimal, zero-padded to width 3 and
\* longer when n needs more digits; YYYY is y in four digits
IsSkuFor(s, C, n, y) ==
    LET lc == Len(C)
        NNN == SubSeq(s, lc + 2, Len(s) - 5)
        YYYY == SubSeq(s, Len(s) - 3, Len(s))
    IN  /\ Len(s) >= lc + 9
        /\ SubSeq(s, 1, lc) = C
        /\ s[lc + 1] = "-"
        /\ \A i \in 1..Len(NNN) : IsDigit(NNN[i])
        /\ DecimalValue(NNN) = n
        /\ Len(NNN) = IF n < 1000 THEN 3
                      ELSE CHOOSE w \in 4..8 : 10 ^ (w - 1) <= n /\ n < 10 ^ w
        /\ s[Len(s) - 4] = "-"
        /\ \A i \in 1..4 : IsDigit(YYYY[i])
        /\ DecimalValue(YYYY) = y

\* C3: for every category code C and every store state, generateSku(C) is
\* C-NNN-YYYY with YYYY the current year and NNN the number of stored
\* products of category C plus one, zero-padded to width 3 and not
\* truncated when it has more than 3 digits.
C3_SkuFormat ==
    \A C \in CategoryCodes :
        IsSkuFor(generateSku(C), C,
                 Cardinality({p \in products : p.category = C}) + 1, year)

\* the generator answered a client for a category of at least 999 products
C3_Witness ==
    /\ resp.op = "generateSku"
    /\ resp.status = 200
    /\ \E C \in CategoryCodes :
          /\ Cardinality({p \in products : p.category = C}) >= 999
          /\ generatedSku["c1"] = generateSku(C)
          /\ Len(generatedSku["c1"]) = Len(C) + 10

\* C4: after any sequence of creations with generated SKUs, deletions and
\* category changes, generateSku(C) returns a SKU that no stored product
\* holds.
C4_GeneratedSkuFree ==
    \A C \in CategoryCodes : \A p \in products : p.sku # generateSku(C)

\* C5: a create with a generated SKU that the uniqueness constraint rejects
\* is retried with a recomputed sequence number and reports failure only
\* after the retries: a reported conflict has seen more than one insert.
C5_RetryOnConflict ==
    (resp.op = "createProduct" /\ resp.fromGenerator /\ resp.error = "unique")
        => resp.inserts > 1

ItemsOf(items, receiptId) == {it \in items : it.receiptId = receiptId}

\* a createReceipt step stored nothing, or the header with every submitted
\* line item; and no stored item lacks its receipt
AllOrNothing(body) ==
    /\ \/ receipts' = receipts /\ receiptItems' = receiptItems
       \/ \E r \in receipts' \ receipts :
            /\ receipts' = receipts \cup {r}
            /\ receiptItems' \ receiptItems = ItemsOf(receiptItems', r.id)
            /\ Cardinality(ItemsOf(receiptItems', r.id)) = Len(body.items)
    /\ \A it \in receiptItems' : \E r \in receipts' : r.id = it.receiptId

\* C6: after any createReceipt call, failed part-way or not, the store holds
\* the receipt header with every submitted line item or neither; no receipt
\* misses items and no item lacks its receipt.
C6_ReceiptAtomic ==
    [][\A role \in Roles, body \in ReceiptBodies :
          CreateReceiptReq(role, body) => AllOrNothing(body)]_vars

RECURSIVE SumLines(_)
SumLines(rows) ==
    IF rows = {} THEN 0
    ELSE LET it == CHOOSE x \in rows : TRUE
         IN  it.unitPrice * it.quantity + SumLines(rows \ {it})

\* the totals invariant of a receipt row, rates in percent
TotalsConsistent(r) ==
    /\ r.subtotal = SumLines(ItemsOf(receiptItems, r.id))
    /\ r.discountAmount * 100 = r.subtotal * r.discountRate
    /\ r.taxAmount * 100 = (r.subtotal - r.discountAmount) * r.taxRate
    /\ r.totalAmount = (r.subtotal - r.discountAmount) + r.taxAmount

\* C7: every receipt persisted by a successful receipt creation satisfies
\* discountAmount = subtotal * discountRate, taxAmount = (subtotal -
\* discountAmount) * taxRate, total = (subtotal - discountAmount) + taxAmount
\* and subtotal = the sum of unitPrice * quantity over its items, whatever
\* totals the client sent.
C7_TotalsHold ==
    (resp.op = "createReceipt" /\ resp.status = 201) =>
        \A r \in receipts : r.id = seq["receipts"] => TotalsConsistent(r)

\* the line items are empty, or one has quantity < 1 or unitPrice < 0
BadLineItems(body) ==
    \/ body.items = <<>>
    \/ \E i \in 1..Len(body.items) :
          \/ \E q \in body.items[i].quantity : q < 1
          \/ body.items[i].unitPrice < 0

\* C8: receipt creation rejects, persisting no header and no item, every
\* request whose item list is empty or has an item with quantity < 1 or
\* unitPrice < 0.
C8_BadItemsRejected ==
    [][\A role \in Roles, body \in ReceiptBodies :
          (BadLineItems(body) /\ CreateReceiptReq(role, body))
              => /\ receipts' = receipts
                 /\ receiptItems' = receiptItems
                 /\ resp'.status \notin {200, 201}]_vars

\* C9: once a receipt is created, no later product update, product deletion
\* or receipt creation changes any field of it or of its line items.
C9_ReceiptsImmutable ==
    [][\A r \in receipts :
          /\ r \in receipts'
          /\ ItemsOf(receiptItems', r.id) = ItemsOf(receiptItems, r.id)]_vars

\* two receipts are stored, and a product that a line item names was
\* renamed and repriced after the sale
C9_Witness ==
    /\ Cardinality(receipts) = 2
    /\ \E it \in receiptItems, p \in products :
          /\ it.productId = p.id
          /\ it.productName # p.name
          /\ it.unitPrice # p.price

\* C10: deleting a product succeeds and removes the product with all of its
\* images, reviews and wishlist rows, and every receipt item that refers to
\* it stays stored unchanged.
C10_DeleteCascades ==
    [][\A id \in ProductIds :
          ((\E p \in products : p.id = id) /\ DeleteProductReq("admin", id))
              => /\ resp'.status = 200
                 /\ \A p \in products' : p.id # id
                 /\ \A r \in productImages' : r.productId # id
                 /\ \A r \in productReviews' : r.productId # id
                 /\ \A r \in wishlist' : r.productId # id
                 /\ receiptItems' = receiptItems]_vars

(***************************************************************************)
(* Text as SQLite compares and matches it.                                 *)
(***************************************************************************)
\* the characters of the model in the order of their code points
Alphabet ==
    <<"%", "-", "0", "1", "2", "3", "4", "5", "6", "7", "8", "9",
      "A", "B", "C", "D", "E", "F", "G", "H", "I", "J", "K", "L", "M",
      "N", "O", "P", "Q", "R", "S", "T", "U", "V", "W", "X", "Y", "Z", "_",
      "a", "b", "c", "d", "e", "f", "g", "h", "i", "j", "k", "l", "m",
      "n", "o", "p", "q", "r", "s", "t", "u", "v", "w", "x", "y", "z">>

CharCode(ch) == CHOOSE i \in 1..Len(Alphabet) : Alphabet[i] = ch

\* LIKE folds the case of the ASCII letters
ToLower(ch) ==
    LET i == CharCode(ch)
    IN  IF 13 <= i /\ i <= 38 THEN Alphabet[i + 27] ELSE ch

\* text LIKE pattern: % matches any run of characters, _ any one character,
\* every other character itself without regard to case
RECURSIVE Like(_, _)
Like(text, pattern) ==
    IF pattern = <<>> THEN text = <<>>
    ELSE IF Head(pattern) = "%"
    THEN Like(text, Tail(pattern))
            \/ (text # <<>> /\ Like(Tail(text), pattern))
    ELSE IF text = <<>> THEN FALSE
    ELSE /\ \/ Head(pattern) = "_"
            \/ ToLower(Head(pattern)) = ToLower(Head(text))
         /\ Like(Tail(text), Tail(pattern))

\* like(column, pattern) on a nullable column: NULL LIKE ... is not true
LikeNullable(column, pattern) == \E text \in column : Like(text, pattern)

\* a < b under the BINARY collation of ORDER BY
RECURSIVE TextLess(_, _)
TextLess(a, b) ==
    IF b = <<>> THEN FALSE
    ELSE IF a = <<>> THEN TRUE
    ELSE IF Head(a) = Head(b) THEN TextLess(Tail(a), Tail(b))
    ELSE CharCode(Head(a)) < CharCode(Head(b))

(***************************************************************************)
(* The public catalog: DatabaseStorage.getCatalogProducts.  A filter that  *)
(* the request does not carry is {}.                                       *)
(***************************************************************************)
\* or(like(name), like(sku), like(description), like(brand), like(tags))
\* with the pattern `%${filters.search}%`
SearchMatches(p, search) ==
    LET pattern == <<"%">> \o search \o <<"%">>
    IN  \/ Like(p.name, pattern)
        \/ Like(p.sku, pattern)
        \/ LikeNullable(p.description, pattern)
        \/ LikeNullable(p.brand, pattern)
        \/ LikeNullable(p.tags, pattern)

\* a mutant of InStock: a product without stock counts as in stock
InStockAlways(p) == p.stockQuantity >= 0

\* sql`${products.stockQuantity} > 0`
InStock(p) == p.stockQuantity > 0

\* a mutant of CatalogWhere: the conditions without eq(isActive, true)
CatalogWhereInactiveToo(p, filters) ==
    /\ \A search \in filters.search : search # <<>> => SearchMatches(p, search)
    /\ \A category \in filters.category :
          category # <<>> => p.category = category
    /\ \A minPrice \in filters.minPrice : p.price >= minPrice
    /\ \A maxPrice \in filters.maxPrice : p.price <= maxPrice
    /\ \A inStock \in filters.inStock : inStock => InStock(p)
    /\ \A featured \in filters.featured : featured => p.isFeatured

\* and(...conditions) of getCatalogProducts
CatalogWhere(p, filters) ==
    /\ p.isActive
    /\ \A search \in filters.search : search # <<>> => SearchMatches(p, search)
    /\ \A category \in filters.category :
          category # <<>> => p.category = category
    /\ \A minPrice \in filters.minPrice : p.price >= minPrice
    /\ \A maxPrice \in filters.maxPrice : p.price <= maxPrice
    /\ \A inStock \in filters.inStock : inStock => InStock(p)
    /\ \A featured \in filters.featured : featured => p.isFeatured

\* the switch on filters.sortBy: the column of the ORDER BY
SortColumn(filters) ==
    IF filters.sortBy = {"price"} THEN "price"
    ELSE IF filters.sortBy = {"created"} THEN "createdAt"
    ELSE "name"

\* a mutant of Descending: the sort order is always asc
DescendingNever(filters) == FALSE

\* filters.sortOrder === 'desc' ? desc : asc
Descending(filters) == filters.sortOrder = {"desc"}

\* row a has a smaller value than row b in the column
ColumnLess(a, b, column) ==
    IF column = "price" THEN a.price < b.price
    ELSE IF column = "createdAt" THEN a.createdAt < b.createdAt
    ELSE TextLess(a.name, b.name)

\* every order of a set of rows
RECURSIVE Orders(_)
Orders(rows) ==
    IF rows = {} THEN {<<>>}
    ELSE UNION {{<<r>> \o rest : rest \in Orders(rows \ {r})} :
                   r \in rows}

\* ORDER BY column ASC|DESC of a set of rows: every sequence that ORDER BY
\* can yield.  SQL fixes no order among rows that are equal in the column.
\* The rows are split at a row in the middle of the order: the rows that
\* go before it, the rows equal to it, the rows that go after it.
RECURSIVE OrderBy(_, _, _)
OrderBy(rows, column, descending) ==
    IF rows = {} THEN {<<>>}
    ELSE LET Before(r) == {q \in rows : IF descending
                                        THEN ColumnLess(r, q, column)
                                        ELSE ColumnLess(q, r, column)}
             Equal(r) == {q \in rows : /\ ~ColumnLess(q, r, column)
                                       /\ ~ColumnLess(r, q, column)}
             half == Cardinality(rows) \div 2
             middle == CHOOSE r \in rows :
                         /\ Cardinality(Before(r)) <= half
                         /\ half < Cardinality(Before(r)) + Cardinality(Equal(r))
             after == rows \ (Before(middle) \cup Equal(middle))
         IN  {a \o e \o b :
                 a \in OrderBy(Before(middle), column, descending),
                 e \in Orders(Equal(middle)),
                 b \in OrderBy(after, column, descending)}

Min(a, b) == IF a <= b THEN a ELSE b

\* if (filters.limit) query.limit(...); if (filters.offset) query.offset(...)
\* and query.all(): 0 counts as not given, and a statement with OFFSET but
\* without LIMIT is one that SQLite refuses to prepare
LimitOffset(rows, filters) ==
    LET limits == {l \in filters.limit : l # 0}
        offsets == {o \in filters.offset : o # 0}
    IN  IF limits = {} /\ offsets # {} THEN [error |-> TRUE, rows |-> <<>>]
        ELSE IF limits = {} THEN [error |-> FALSE, rows |-> rows]
        ELSE LET limit == CHOOSE l \in limits : TRUE
                 offset == IF offsets = {} THEN 0 ELSE CHOOSE o \in offsets : TRUE
             IN  [error |-> FALSE,
                  rows |-> SubSeq(rows, offset + 1, Min(offset + limit, Len(rows)))]

\* DatabaseStorage.getCatalogProducts: the results the query can yield
getCatalogProducts(filters) ==
    {LimitOffset(sorted, filters) :
        sorted \in OrderBy({p \in products : CatalogWhere(p, filters)},
                           SortColumn(filters), Descending(filters))}

\* GET /api/catalog/products
CatalogProductsReq(filters) ==
    /\ \E result \in getCatalogProducts(filters) :
          IF result.error
          THEN /\ resp' = Respond("getCatalogProducts", 500, "syntax", 0, FALSE)
               /\ json' = NoJson
          ELSE /\ resp' = Respond("getCatalogProducts", 200, "none", 0, FALSE)
               /\ json' = result.rows
    /\ req' = filters
    /\ UNCHANGED <<store, year, calls, client, now, generatedSku>>

\* the clock advances
Tick ==
    /\ now < MaxNow
    /\ now' = now + 1
    /\ UNCHANGED <<store, year, calls, client, generatedSku, resp, json, req>>

(***************************************************************************)
(* Catalog requests over drawn stores.                                     *)
(***************************************************************************)
\* a stocked product: the columns the catalog reads
Stocked(name, category, price, stock, isActive, isFeatured, createdAt, description, brand, tags) ==
    [name |-> name, category |-> category, price |-> price,
     stockQuantity |-> stock, isActive |-> isActive,
     isFeatured |-> isFeatured, createdAt |-> createdAt,
     description |-> description, brand |-> brand, tags |-> tags]

\* the products that drawn stores are filled with
Stock ==
    <<Stocked(<<"a", "b">>, ELC, 10, 5, TRUE, FALSE, 1, {}, {}, {}),
      Stocked(<<"B">>, TOY, 20, 0, TRUE, TRUE, 2, {<<"A", "b">>}, {}, {}),
      Stocked(<<"b">>, ELC, 25, 11, TRUE, FALSE, 2, {}, {<<"c">>}, {}),
      Stocked(<<"a", "b">>, ELC, 5, 10, FALSE, TRUE, 3, {}, {}, {}),
      Stocked(<<"c">>, TOY, 10, 0, TRUE, TRUE, 1, {}, {}, {<<"a", "_", "b">>})>>

\* the row of id that holds a stocked product, its SKU entered by hand
StockRow(id, stocked) ==
    [id |-> id, name |-> stocked.name, sku |-> <<"M">> \o String(id),
     category |-> stocked.category, price |-> stocked.price,
     stockQuantity |-> stocked.stockQuantity,
     description |-> stocked.description, brand |-> stocked.brand,
     tags |-> stocked.tags, isActive |-> stocked.isActive,
     isFeatured |-> stocked.isFeatured, createdAt |-> stocked.createdAt]

\* the stores of at most n products
StockedStores(n) ==
    UNION {{{StockRow(i, Stock[pick[i]]) : i \in 1..k} :
                pick \in [1..k -> 1..Len(Stock)]} : k \in 0..n}

NoFilters ==
    [search |-> {}, category |-> {}, minPrice |-> {}, maxPrice |-> {},
     inStock |-> {}, featured |-> {}, sortBy |-> {}, sortOrder |-> {},
     limit |-> {}, offset |-> {}]

\* category, price range, stock and featured filters
PredicateFilters ==
    {[NoFilters EXCEPT !.category = category, !.minPrice = minPrice,
                       !.maxPrice = maxPrice, !.inStock = inStock,
                       !.featured = featured] :
        category \in Opt({ELC}), minPrice \in Opt({10}), maxPrice \in Opt({20}),
        inStock \in {{FALSE}, {TRUE}}, featured \in {{FALSE}, {TRUE}}}

\* searches, the empty one and one with a LIKE wildcard among them
SearchFilters ==
    {[NoFilters EXCEPT !.search = {search}, !.category = category] :
        search \in {<<>>, <<"b">>, <<"A", "B">>, <<"_">>, <<"M", "1">>},
        category \in Opt({ELC})}

\* sort keys, sort orders and pages
PageFilters ==
    {[NoFilters EXCEPT !.sortBy = sortBy, !.sortOrder = sortOrder,
                       !.limit = limit, !.offset = offset] :
        sortBy \in Opt({"name", "price", "created"}),
        sortOrder \in Opt({"asc", "desc"}),
        limit \in Opt({0, 2}), offset \in Opt({0, 1})}

CatalogFilters == PredicateFilters \cup SearchFilters \cup PageFilters

InitCatalog ==
    /\ products \in StockedStores(MaxCatalog)
    /\ seq = [t \in Tables |-> IF t = "products" THEN Cardinality(products)
                               ELSE IF t = "categories" THEN 6 ELSE 0]
    /\ productImages = {}
    /\ productReviews = {}
    /\ wishlist = {}
    /\ receipts = {}
    /\ receiptItems = {}
    /\ categories = SeededCategories
    /\ year = StartYear
    /\ now = 0
    /\ generatedSku = [c \in Clients |-> <<>>]
    /\ resp = NoResp
    /\ json = NoJson
    /\ req \in CatalogFilters
    /\ calls = {}
    /\ appState = "loading"
    /\ user = {}
    /\ loggingOut = 0
    /\ session = {}

\* the catalog answers the request that was drawn
NextCatalog == CatalogProductsReq(req)

SpecCatalog == InitCatalog /\ [][NextCatalog]_vars

(***************************************************************************)
(* Properties of the catalog.                                              *)
(***************************************************************************)
\* the last request was a catalog listing that was answered with rows
CatalogAnswered == resp.op = "getCatalogProducts" /\ resp.status = 200

\* the rows of a listing, as a set
Range(rows) == {rows[i] : i \in 1..Len(rows)}

\* C11: every product that getCatalogProducts returns has isActive = true,
\* for every combination of filter, sort and pagination parameters.
C11_CatalogOnlyActive == CatalogAnswered => \A p \in Range(json) : p.isActive

\* a sorted page of a store with an inactive product was answered, and the
\* page was not empty
C11_Witness ==
    /\ CatalogAnswered
    /\ req.sortBy # {} /\ req.limit = {2}
    /\ Len(json) >= 1
    /\ \E p \in products : ~p.isActive

(***************************************************************************)
(* The admin listing and the product detail of the catalog.                *)
(***************************************************************************)
\* a mutant of AdminWhere: the listing leaves inactive products out
AdminWhereActiveOnly(p, search, category) ==
    /\ p.isActive
    /\ \A s \in search :
          s # <<>> =>
            LET pattern == <<"%">> \o s \o <<"%">>
            IN  \/ Like(p.name, pattern)
                \/ Like(p.sku, pattern)
                \/ LikeNullable(p.description, pattern)
    /\ \A c \in category : c # <<>> => p.category = c

\* and(...conditions) of getProducts; search and category are {} when the
\* request does not carry them
AdminWhere(p, search, category) ==
    /\ \A s \in search :
          s # <<>> =>
            LET pattern == <<"%">> \o s \o <<"%">>
            IN  \/ Like(p.name, pattern)
                \/ Like(p.sku, pattern)
                \/ LikeNullable(p.description, pattern)
    /\ \A c \in category : c # <<>> => p.category = c

\* a mutant of SelectProducts: the oldest products come first
SelectProductsOldestFirst(table, search, category) ==
    {SubSeq(sorted, 1, Min(100, Len(sorted))) :
        sorted \in OrderBy({p \in table : AdminWhere(p, search, category)},
                           "createdAt", FALSE)}

\* select ... where ... order by created_at desc limit 100 over the rows of
\* the products table: the results the query can yield
SelectProducts(table, search, category) ==
    {SubSeq(sorted, 1, Min(100, Len(sorted))) :
        sorted \in OrderBy({p \in table : AdminWhere(p, search, category)},
                           "createdAt", TRUE)}

\* DatabaseStorage.getProducts
getProducts(search, category) == SelectProducts(products, search, category)

\* GET /api/products
ProductsReq(role, search, category) ==
    /\ IF ~IsAdmin(role)
       THEN /\ resp' = Respond("getProducts", 403, "none", 0, FALSE)
            /\ json' = NoJson
       ELSE /\ resp' = Respond("getProducts", 200, "none", 0, FALSE)
            /\ json' \in getProducts(search, category)
    /\ req' = [search |-> search, category |-> category]
    /\ UNCHANGED <<store, year, calls, client, now, generatedSku>>

\* DatabaseStorage.getProductWithImages: { ...product, images, reviews }
getProductWithImages(p) ==
    [column \in DOMAIN p \cup {"images", "reviews"} |->
        IF column = "images" THEN {r \in productImages : r.productId = p.id}
        ELSE IF column = "reviews"
        THEN {r \in productReviews : r.productId = p.id}
        ELSE p[column]]

\* GET /api/catalog/products/:id
CatalogProductReq(id) ==
    /\ IF ~\E p \in products : p.id = id
       THEN /\ resp' = Respond("getProductWithImages", 404, "none", 0, FALSE)
            /\ json' = NoJson
       ELSE /\ resp' = Respond("getProductWithImages", 200, "none", 0, FALSE)
            /\ json' = getProductWithImages(CHOOSE p \in products : p.id = id)
    /\ req' = [id |-> id]
    /\ UNCHANGED <<store, year, calls, client, now, generatedSku>>

(***************************************************************************)
(* Products created, deactivated, activated again and renamed while the    *)
(* catalog and the admin listing are read.                                 *)
(***************************************************************************)
ActivePatches == {[NoPatch EXCEPT !.isActive = {b}] : b \in BOOLEAN}

VisibilityPatches == ActivePatches \cup {[NoPatch EXCEPT !.name = {N2}]}

VisibilityFilters ==
    {NoFilters, [NoFilters EXCEPT !.search = {<<"N">>}],
     [NoFilters EXCEPT !.sortBy = {"created"}, !.sortOrder = {"desc"}]}

AdminSearches == {{}, {<<"N", "1">>}}

NextVisibility ==
    \/ \E body \in StoreBodies : CreateProductReq("c1", "admin", body)
    \/ \E id \in ProductIds, patch \in VisibilityPatches :
            UpdateProductReq("viewer", id, patch)
    \/ \E filters \in VisibilityFilters : CatalogProductsReq(filters)
    \/ \E role \in Roles, search \in AdminSearches :
            ProductsReq(role, search, {})
    \/ \E id \in ProductIds : CatalogProductReq(id)
    \/ Tick

SpecVisibility == Init /\ [][NextVisibility]_vars

(***************************************************************************)
(* Properties of the visibility of products.                               *)
(***************************************************************************)
Ids(rows) == {rows[i].id : i \in 1..Len(rows)}

\* no product that the store holds as inactive is among the rows of a
\* catalog listing
InactiveNotListed ==
    CatalogAnswered =>
        \A p \in products : ~p.isActive => p.id \notin Ids(json)

\* an inactive product stays inactive until an update activates it
InactiveUntilActivated ==
    \A p \in products : \A q \in products' :
        (~p.isActive /\ q.id = p.id /\ q.isActive) =>
            /\ resp'.op = "updateProduct"
            /\ UpdateProductReq("viewer", p.id,
                                [NoPatch EXCEPT !.isActive = {TRUE}])

\* an update of isActive alone deactivates or activates the product, and
\* the admin listing has the same products after it as before it
ToggleKeepsAdminListing ==
    \A id \in ProductIds, b \in BOOLEAN :
        (/\ resp'.op = "updateProduct"
         /\ \E p \in products : p.id = id
         /\ UpdateProductReq("viewer", id, [NoPatch EXCEPT !.isActive = {b}]))
            => /\ \E q \in products' : q.id = id /\ q.isActive = b
               /\ \A search \in AdminSearches :
                    /\ {Ids(rows) : rows \in SelectProducts(products, search, {})}
                         = {Ids(rows) :
                                rows \in SelectProducts(products', search, {})}
                    /\ \A rows \in SelectProducts(products', search, {}) :
                          (\E p \in products : p.id = id /\ AdminWhere(p, search, {}))
                              => id \in Ids(rows)

\* C12: once updateProduct sets isActive to false, no later catalog query
\* returns the product until it is set active again, while the admin
\* listing getProducts returns the same products, that one included, as
\* before the toggle.
C12_DeactivatedHidden ==
    /\ []InactiveNotListed
    /\ [][InactiveUntilActivated]_vars
    /\ [][ToggleKeepsAdminListing]_vars

\* the catalog listed a product while the store held another product that
\* an update had deactivated
C12_Witness ==
    /\ CatalogAnswered
    /\ req = NoFilters
    /\ Len(json) >= 1
    /\ \E p \in products : ~p.isActive

\* C13: the public product detail read, GET /api/catalog/products/:id with
\* getProductWithImages, never returns a product whose isActive is false.
C13_DetailOnlyActive ==
    (resp.op = "getProductWithImages" /\ resp.status = 200) => json.isActive

(***************************************************************************)
(* Properties of the catalog's filters, search, pages and order.           *)
(***************************************************************************)
\* p satisfies every predicate that the request provides
SatisfiesProvided(p, filters) ==
    /\ \A c \in filters.category : c # <<>> => p.category = c
    /\ \A lo \in filters.minPrice : lo <= p.price
    /\ \A hi \in filters.maxPrice : p.price <= hi
    /\ filters.inStock = {TRUE} => p.stockQuantity >= 1
    /\ filters.featured = {TRUE} => p.isFeatured = TRUE

NoSearch(filters) == filters.search \in {{}, {<<>>}}

NoPage(filters) == filters.limit = {} /\ filters.offset = {}

\* C14: order and pagination aside, the catalog's result set is exactly the
\* active products that satisfy every provided predicate: category equal,
\* price >= minPrice and <= maxPrice inclusive, stockQuantity > 0 when
\* inStock is set, isFeatured when featured is set; a filter that is not
\* provided excludes nothing.
C14_CatalogFilterSet ==
    (CatalogAnswered /\ NoSearch(req)) =>
        LET expected == {p \in products :
                            p.isActive /\ SatisfiesProvided(p, req)}
        IN  /\ Range(json) \subseteq expected
            /\ NoPage(req) => Range(json) = expected

\* a request with category, price range and stock filters listed a product
\* at the lower price bound and left another product out
C14_Witness ==
    /\ CatalogAnswered
    /\ req.category = {ELC} /\ req.minPrice = {10} /\ req.maxPrice = {20}
    /\ req.inStock = {TRUE}
    /\ \E p \in Range(json) : p.price = 10
    /\ Cardinality(products) > Len(json)

\* search occurs in text as a substring, letters compared without case
Occurs(search, text) ==
    \E i \in 0..(Len(text) - Len(search)) :
        \A j \in 1..Len(search) : ToLower(text[i + j]) = ToLower(search[j])

\* search occurs in the name, sku, description, brand or tags of p
OccursInProduct(search, p) ==
    \/ Occurs(search, p.name)
    \/ Occurs(search, p.sku)
    \/ \E text \in p.description \cup p.brand \cup p.tags : Occurs(search, text)

\* C15: with a search string, a product is returned only if the string
\* occurs, compared case-insensitively, as a substring of its name, sku,
\* description, brand or tags, and every active product with such an
\* occurrence that passes the other filters is returned.
C15_SearchSubstring ==
    (CatalogAnswered /\ ~NoSearch(req) /\ NoPage(req)) =>
        \A search \in req.search :
            Range(json) = {p \in products :
                              /\ p.isActive
                              /\ OccursInProduct(search, p)
                              /\ SatisfiesProvided(p, req)}

\* the sorted rows with the first offset rows skipped and at most limit
\* rows kept
Paged(sorted, filters) ==
    LET offset == IF filters.offset = {} THEN 0
                  ELSE CHOOSE o \in filters.offset : TRUE
        rest == SubSeq(sorted, offset + 1, Len(sorted))
    IN  IF filters.limit = {} THEN rest
        ELSE SubSeq(rest, 1, Min(CHOOSE l \in filters.limit : TRUE, Len(rest)))

\* C16: the sequence returned is the filtered and sorted sequence with the
\* first offset rows skipped and then at most limit rows kept; when limit
\* is absent every remaining row is returned, also when an offset is given.
C16_Pagination ==
    resp.op = "getCatalogProducts" =>
        /\ resp.status = 200
        /\ \E sorted \in OrderBy({p \in products : CatalogWhere(p, req)},
                                 SortColumn(req), Descending(req)) :
                json = Paged(sorted, req)

\* row a may come directly before row b in the order the request selects
InOrder(a, b, filters) ==
    LET down == filters.sortOrder = {"desc"}
        lo == IF down THEN b ELSE a
        hi == IF down THEN a ELSE b
    IN  IF filters.sortBy = {"price"} THEN lo.price <= hi.price
        ELSE IF filters.sortBy = {"created"} THEN lo.createdAt <= hi.createdAt
        ELSE lo.name = hi.name \/ TextLess(lo.name, hi.name)

\* C17: the returned sequence is ordered by the selected sort key (name,
\* price or creation time), non-decreasing for asc and non-increasing for
\* desc; the key is name when sortBy is absent and the order ascending when
\* sortOrder is absent.
C17_Sorted ==
    CatalogAnswered =>
        \A i \in 1..(Len(json) - 1) : InOrder(json[i], json[i + 1], req)

\* products of different prices were listed by price, the dearest first
C17_Witness ==
    /\ CatalogAnswered
    /\ req.sortBy = {"price"} /\ req.sortOrder = {"desc"}
    /\ Len(json) >= 2
    /\ json[1].price > json[Len(json)].price

(***************************************************************************)
(* The admin listing over stores of fewer and of more than 100 products.   *)
(***************************************************************************)
\* a store of n products: every third one inactive, the even ones in ELC
\* and the odd ones in TOY, created one per tick but for the first two,
\* which were created in the same tick
ListedStore(n) ==
    {StockRow(i, Stocked(N1, IF i % 2 = 0 THEN ELC ELSE TOY, 8, 0, i % 3 # 0,
                         FALSE, IF i = 1 THEN 2 ELSE i, {}, {}, {})) :
        i \in 1..n}

ListedSizes == (0..MaxListed) \cup {99, 100, 101, 102}

\* the search and category of GET /api/products
ListingRequests ==
    [search : {{}, {<<>>}, {<<"m", "1">>}}, category : {{}, {ELC}}]

InitListing ==
    /\ \E n \in ListedSizes :
            /\ products = ListedStore(n)
            /\ seq = [t \in Tables |-> IF t = "products" THEN n
                                       ELSE IF t = "categories" THEN 6 ELSE 0]
    /\ productImages = {}
    /\ productReviews = {}
    /\ wishlist = {}
    /\ receipts = {}
    /\ receiptItems = {}
    /\ categories = SeededCategories
    /\ year = StartYear
    /\ now = 0
    /\ generatedSku = [c \in Clients |-> <<>>]
    /\ resp = NoResp
    /\ json = NoJson
    /\ req \in ListingRequests
    /\ calls = {}
    /\ appState = "loading"
    /\ user = {}
    /\ loggingOut = 0
    /\ session = {}

\* the listing answers the request that was drawn
NextListing == \E role \in Roles : ProductsReq(role, req.search, req.category)

SpecListing == InitListing /\ [][NextListing]_vars

\* p matches the search and the category of the request
MatchesListing(p, request) ==
    /\ \A search \in request.search :
          \/ Occurs(search, p.name)
          \/ Occurs(search, p.sku)
          \/ \E text \in p.description : Occurs(search, text)
    /\ \A category \in request.category : p.category = category

\* C18: getProducts(search?, category?) returns at most 100 products,
\* sorted by creation time descending, which are the most recently created
\* products that match the search and the category; inactive products are
\* included.
C18_AdminListing ==
    (resp.op = "getProducts" /\ resp.status = 200) =>
        LET matching == {p \in products : MatchesListing(p, req)}
        IN  /\ Len(json) = Min(100, Cardinality(matching))
            /\ Cardinality(Range(json)) = Len(json)
            /\ Range(json) \subseteq matching
            /\ \A i \in 1..(Len(json) - 1) :
                  json[i].createdAt >= json[i + 1].createdAt
            /\ \A p \in matching \ Range(json) : \A q \in Range(json) :
                  p.createdAt <= q.createdAt

\* a store of more than 100 products was listed: 100 rows, inactive
\* products among them, and a product was left out
C18_Witness ==
    /\ resp.op = "getProducts" /\ resp.status = 200
    /\ Cardinality(products) > 100
    /\ Len(json) = 100
    /\ \E p \in Range(json) : ~p.isActive

(***************************************************************************)
(* Categories and the analytics of the dashboard.                          *)
(***************************************************************************)
\* insertCategorySchema: name and code are required strings; a body is a
\* record of the fields the request carries
ValidCategory(body) == {"name", "code"} \subseteq DOMAIN body

\* POST /api/categories with getCategoryByCode and createCategory
CreateCategoryReq(role, body) ==
    /\ IF ~IsAdmin(role)
       THEN /\ resp' = Respond("createCategory", 403, "none", 0, FALSE)
            /\ UNCHANGED <<categories, seq>>
       ELSE IF ~ValidCategory(body)
       THEN /\ resp' = Respond("createCategory", 400, "zod", 0, FALSE)
            /\ UNCHANGED <<categories, seq>>
       ELSE IF \E c \in categories : c.code = body.code
       THEN /\ resp' = Respond("createCategory", 409, "none", 0, FALSE)
            /\ UNCHANGED <<categories, seq>>
       ELSE IF \E c \in categories : c.name = body.name
       THEN /\ resp' = Respond("createCategory", 500, "unique", 0, FALSE)
            /\ UNCHANGED <<categories, seq>>
       ELSE /\ seq["categories"] < 6 + MaxCategories
            /\ categories' = categories \cup
                    {[id |-> seq["categories"] + 1, name |-> body.name,
                      code |-> body.code]}
            /\ seq' = [seq EXCEPT !["categories"] = @ + 1]
            /\ resp' = Respond("createCategory", 201, "none", 0, FALSE)
    /\ json' = NoJson
    /\ UNCHANGED <<products, productImages, productReviews, wishlist, receipts,
                   receiptItems, year, calls, client, now, req, generatedSku>>

\* select sum(price * stock_quantity) from the rows: NULL ({}) when there
\* is no row
RECURSIVE SumValue(_)
SumValue(rows) ==
    IF rows = {} THEN {}
    ELSE LET p == CHOOSE r \in rows : TRUE
             rest == SumValue(rows \ {p})
         IN  {p.price * p.stockQuantity
                + (IF rest = {} THEN 0 ELSE CHOOSE v \in rest : TRUE)}

\* x || 0 of a number or NULL
OrZero(x) == IF x = {} THEN 0 ELSE CHOOSE v \in x : TRUE

\* a mutant of LowStock: a product with 10 in stock is not low in stock
LowStockBelowTen(p) == p.stockQuantity < 10

\* where stock_quantity <= 10
LowStock(p) == p.stockQuantity <= 10

\* DatabaseStorage.getProductStats
getProductStats ==
    [totalProducts |-> OrZero({Cardinality(products)}),
     totalValue |-> OrZero(SumValue(products)),
     lowStockCount |-> OrZero({Cardinality({p \in products : LowStock(p)})}),
     categoriesCount |-> OrZero({Cardinality(categories)})]

\* GET /api/analytics/stats
StatsReq ==
    /\ resp' = Respond("getProductStats", 200, "none", 0, FALSE)
    /\ json' = getProductStats
    /\ UNCHANGED <<store, year, calls, client, now, req, generatedSku>>

CategoryBodies ==
    {[name |-> "Garden", code |-> <<"G", "R", "D">>],
     [name |-> "Toys", code |-> <<"T", "Y", "S">>],
     [name |-> "Games", code |-> TOY]}

InitStats ==
    /\ products \in StockedStores(MaxCatalog)
    /\ seq = [t \in Tables |-> IF t = "products" THEN Cardinality(products)
                               ELSE IF t = "categories" THEN 6 ELSE 0]
    /\ productImages = {}
    /\ productReviews = {}
    /\ wishlist = {}
    /\ receipts = {}
    /\ receiptItems = {}
    /\ categories = SeededCategories
    /\ year = StartYear
    /\ now = 0
    /\ generatedSku = [c \in Clients |-> <<>>]
    /\ resp = NoResp
    /\ json = NoJson
    /\ req = NoJson
    /\ calls = {}
    /\ appState = "loading"
    /\ user = {}
    /\ loggingOut = 0
    /\ session = {}

NextStats ==
    \/ StatsReq
    \/ \E role \in Roles, body \in CategoryBodies : CreateCategoryReq(role, body)
    \/ \E id \in 1..MaxCatalog : DeleteProductReq("admin", id)

SpecStats == InitStats /\ [][NextStats]_vars

\* the sum of price * stockQuantity over the products of ids 1..n
RECURSIVE ValueUpTo(_)
ValueUpTo(n) ==
    IF n = 0 THEN 0
    ELSE ValueUpTo(n - 1)
            + (IF \E p \in products : p.id = n
               THEN LET p == CHOOSE q \in products : q.id = n
                    IN  p.price * p.stockQuantity
               ELSE 0)

\* C19: getProductStats returns totalProducts = the number of products
\* whatever their isActive, totalValue = the sum of price * stockQuantity
\* over the products, lowStockCount = the number of products with
\* stockQuantity <= 10 (zero included) and categoriesCount = the number of
\* categories; without products the first three are 0 and categoriesCount
\* is the seeded number of categories.
C19_Stats ==
    resp.op = "getProductStats" =>
        /\ json.totalProducts = Cardinality(products)
        /\ json.totalValue = ValueUpTo(seq["products"])
        /\ json.lowStockCount =
              Cardinality({p \in products : p.stockQuantity \in 0..10})
        /\ json.categoriesCount = Cardinality(categories)
        /\ products = {} =>
              /\ json.totalProducts = 0
              /\ json.totalValue = 0
              /\ json.lowStockCount = 0
        /\ seq["categories"] = 6 => json.categoriesCount = 6

\* the statistics of a store with an inactive product, a product with 10
\* in stock and a product with more were returned
C19_Witness ==
    /\ resp.op = "getProductStats"
    /\ \E p \in products : ~p.isActive /\ p.stockQuantity = 10
    /\ \E p \in products : p.stockQuantity = 11
    /\ json.totalProducts = 3
    /\ json.lowStockCount = 2
    /\ json.totalValue > 0

(***************************************************************************)
(* Wishlists of catalog sessions.                                          *)
(***************************************************************************)
WishlistSessions == {"s1", "s2"}

NextWishlist ==
    \/ \E body \in StoreBodies : CreateProductReq("c1", "admin", body)
    \/ \E sessionId \in WishlistSessions \cup {""}, id \in ProductIds \cup {0} :
            AddToWishlistReq(sessionId, id)
    \/ \E sessionId \in WishlistSessions \cup {""}, id \in ProductIds :
            RemoveFromWishlistReq(sessionId, id)
    \/ Tick

SpecWishlist == Init /\ [][NextWishlist]_vars

\* an addToWishlist call for a pair without a row returns the row it
\* inserts; a call for a pair that has a row returns that row and leaves
\* the table as it is
AddReturnsTheOneRow(sessionId, productId) ==
    LET pair(w) == w.sessionId = sessionId /\ w.productId = productId
    IN  (resp'.op = "addToWishlist" /\ resp'.status = 200
            /\ AddToWishlistReq(sessionId, productId))
        => IF \E w \in wishlist : pair(w)
           THEN /\ wishlist' = wishlist
                /\ json' \in wishlist
                /\ \A w \in wishlist : pair(w) => w = json'
           ELSE /\ json' \notin wishlist
                /\ pair(json')
                /\ wishlist' = wishlist \cup {json'}

\* C20: addToWishlist(sessionId, productId) is idempotent: a second call
\* for a pair that has a row returns the same row as the first call and
\* adds no row.
C20_WishlistIdempotent ==
    [][\A sessionId \in WishlistSessions, id \in ProductIds :
          AddReturnsTheOneRow(sessionId, id)]_vars

\* a call answered with a row that the table held since an earlier tick,
\* and the table holds that one row
C20_Witness ==
    /\ resp.op = "addToWishlist" /\ resp.status = 200
    /\ wishlist = {json}
    /\ json.createdAt < now

(***************************************************************************)
(* Requests as they arrive: form fields are strings, a field may be absent *)
(* and a request may come without a session.                               *)
(***************************************************************************)
\* req.session.user of a request: an admin, another user, or none
Callers == Roles \cup {"none"}

\* the length of the longest prefix of s that consists of decimal digits
DigitPrefix(s) ==
    CHOOSE n \in 0..Len(s) :
        /\ \A i \in 1..n : IsDigit(s[i])
        /\ n = Len(s) \/ ~IsDigit(s[n + 1])

\* parseFloat of a form field, for numerals without a decimal point: the
\* number that the longest prefix of an optional sign and digits denotes,
\* NaN ({}) when that prefix has no digit and when the field is absent
parseFloat(field) ==
    IF field = {} THEN {}
    ELSE LET s == CHOOSE v \in field : TRUE
             negative == s # <<>> /\ s[1] = "-"
             digits == IF negative THEN Tail(s) ELSE s
             n == DigitPrefix(digits)
             value == DecimalValue(SubSeq(digits, 1, n))
         IN  IF n = 0 THEN {}
             ELSE {IF negative THEN 0 - value ELSE value}

\* parseInt of a form field: on numerals without a decimal point it reads
\* what parseFloat reads
parseInt(field) == parseFloat(field)

\* the fields of the multipart body of POST /api/products
ProductForm(name, sku, category, price, stockQuantity) ==
    [name |-> name, sku |-> sku, category |-> category, price |-> price,
     stockQuantity |-> stockQuantity]

\* const transformedData = { ...req.body, price: parseFloat(..) || 0,
\* stockQuantity: parseInt(..) || 0, .. }; an absent name, sku or category
\* fails the schema as the empty string does
transformedData(form) ==
    [name |-> form.name, sku |-> form.sku, category |-> form.category,
     price |-> OrZero(parseFloat(form.price)),
     stockQuantity |-> OrZero(parseInt(form.stockQuantity)),
     description |-> {}, brand |-> {}, tags |-> {}, isActive |-> {},
     isFeatured |-> {}]

\* a well-formed form, and forms that differ from it in one field: no
\* name, another sku, no sku, a negative price, a price that is no number,
\* no price, a negative stock quantity, no stock quantity
ProductForms ==
    LET good == ProductForm(N1, X1, ELC, {<<"8">>}, {<<"3">>})
    IN  {good, [good EXCEPT !.name = <<>>], [good EXCEPT !.sku = X2],
         [good EXCEPT !.sku = <<>>],
         [good EXCEPT !.price = {<<"-", "4">>}],
         [good EXCEPT !.price = {<<"a", "b", "c">>}],
         [good EXCEPT !.price = {}],
         [good EXCEPT !.stockQuantity = {<<"-", "1">>}],
         [good EXCEPT !.stockQuantity = {}]}

\* category bodies with a new code and name, a taken code, a taken name,
\* and no name
FormCategoryBodies ==
    CategoryBodies \cup {[code |-> <<"G", "M", "S">>]}

\* receipts of no item, of one item, and of an item after which comes an
\* item without quantity; a receipt without totalAmount
FormReceiptBodies ==
    {ReceiptBody(n, items, {calculateTotals(items, 50, 50).total}) :
        n \in {"R1", "R2"},
        items \in {<<>>, <<Item(1, {2}, 8)>>,
                   <<Item(1, {2}, 8), Item(1, {}, 8)>>}}
    \cup {ReceiptBody("R1", <<Item(1, {2}, 8)>>, {})}

PricePatches ==
    {[NoPatch EXCEPT !.price = {v}] : v \in {5, -4}}
    \cup {[NoPatch EXCEPT !.stockQuantity = {v}] : v \in {3, -1}}

NextForms ==
    \/ \E role \in Roles, form \in ProductForms :
            CreateProductReq("c1", role, transformedData(form))
    \/ \E role \in Roles, id \in ProductIds, patch \in PricePatches :
            UpdateProductReq(role, id, patch)
    \/ \E body \in FormCategoryBodies : CreateCategoryReq("admin", body)
    \/ \E body \in FormReceiptBodies : CreateReceiptReq("admin", body)

SpecForms == Init /\ [][NextForms]_vars

\* a well-formed create request whose unique column holds a taken value
ProductConflict(form) ==
    /\ ValidProduct(transformedData(form))
    /\ SkuUniqueViolated(form.sku, 0)

CategoryConflict(body) ==
    /\ ValidCategory(body)
    /\ \E c \in categories : c.code = body.code \/ c.name = body.name

ReceiptConflict(body) ==
    /\ ValidReceipt(body.receipt)
    /\ \A i \in 1..Len(body.items) : ValidReceiptItem(body.items[i])
    /\ \E n \in body.receipt.receiptNumber : ReceiptNumberTaken(n)

\* C23: a create request that violates the uniqueness of a product sku, a
\* receipt receiptNumber, a category code or a category name is answered
\* with a conflict outcome, distinct from the validation error and from
\* the internal failure, and leaves the store unchanged.
C23_ConflictDistinct ==
    [][LET \* the answer is neither success, nor the validation error, nor
           \* the internal failure, and no table has changed
           ConflictAnswered ==
               resp'.status \notin {201, 400, 500} /\ store' = store
       IN  /\ \A form \in ProductForms :
                (ProductConflict(form)
                    /\ CreateProductReq("c1", "admin", transformedData(form)))
                => ConflictAnswered
           /\ \A body \in FormCategoryBodies :
                (CategoryConflict(body) /\ CreateCategoryReq("admin", body))
                => ConflictAnswered
           /\ \A body \in FormReceiptBodies :
                (ReceiptConflict(body) /\ CreateReceiptReq("admin", body))
                => ConflictAnswered]_vars

\* a product form without name, sku or category, with a price that is
\* missing or no number, or with a negative stock quantity
MalformedForm(form) ==
    LET \* the field is given and reads as a decimal number from its first
        \* to its last character
        IsNumber(field) ==
            \E s \in field :
                LET digits == IF s # <<>> /\ s[1] = "-" THEN Tail(s) ELSE s
                IN  digits # <<>> /\ DigitPrefix(digits) = Len(digits)
    IN
    \/ form.name = <<>>
    \/ form.sku = <<>>
    \/ form.category = <<>>
    \/ ~IsNumber(form.price)
    \/ \E q \in parseInt(form.stockQuantity) : q < 0

\* a receipt without receiptNumber or totalAmount, or with a line item
\* without quantity among its items
MalformedReceipt(body) ==
    \/ ~ValidReceipt(body.receipt)
    \/ \E i \in 1..Len(body.items) : ~ValidReceiptItem(body.items[i])

\* C24: a product, category or receipt request with a malformed or missing
\* required field, a price that is no number and a receipt with one invalid
\* line item included, is answered with a validation error and writes
\* nothing to the store.
C24_InvalidNeverPersisted ==
    [][LET \* the answer is the validation error and no table has changed
           ValidationAnswered == resp'.status = 400 /\ store' = store
       IN  /\ \A form \in ProductForms :
                (MalformedForm(form)
                    /\ CreateProductReq("c1", "admin", transformedData(form)))
                => ValidationAnswered
           /\ \A body \in FormCategoryBodies :
                (~ValidCategory(body) /\ CreateCategoryReq("admin", body))
                => ValidationAnswered
           /\ \A body \in FormReceiptBodies :
                (MalformedReceipt(body) /\ CreateReceiptReq("admin", body))
                => ValidationAnswered]_vars

\* C26: in every reachable state every stored product has price >= 0 and
\* an integer stockQuantity >= 0: no create or update request that the API
\* accepts stores a negative price or a negative stock quantity.
C26_NonNegative ==
    \A p \in products : p.price >= 0 /\ p.stockQuantity \in Nat

\* C28: when an admin creates a product without supplying an SKU, the
\* server assigns the SKU that generateSku yields for the product's
\* category and stores the product with it.
C28_ServerAssignsSku ==
    [][LET \* a form that is well-formed but for its sku, which is not supplied
           WithoutSku(form) ==
               /\ form.sku = <<>>
               /\ ValidProduct([transformedData(form) EXCEPT !.sku = X1])
       IN  \A form \in ProductForms :
                (WithoutSku(form) /\ seq["products"] < MaxProductId
                    /\ CreateProductReq("c1", "admin", transformedData(form)))
                => /\ resp'.status = 201
                   /\ \E p \in products' \ products :
                            p.sku = generateSku(form.category)]_vars

(***************************************************************************)
(* Who is answered: the admin panel's routes as requests of an admin, of   *)
(* another user and of a caller without session.                           *)
(***************************************************************************)
\* GET /api/analytics/stats as the request of a caller: the route has no
\* requireAdmin and never reads req.session
StatsReqOf(role) ==
    /\ role \in Callers
    /\ StatsReq

\* GET /api/receipts with getReceipts: the rows of the table; their order
\* is left out
ReceiptsReq(role) ==
    /\ IF ~IsAdmin(role)
       THEN /\ resp' = Respond("getReceipts", 403, "none", 0, FALSE)
            /\ json' = NoJson
       ELSE /\ resp' = Respond("getReceipts", 200, "none", 0, FALSE)
            /\ json' = receipts
    /\ UNCHANGED <<store, year, calls, client, now, req, generatedSku>>

NextAccess ==
    \/ \E role \in Callers, body \in StoreBodies :
            CreateProductReq("c1", role, body)
    \/ \E role \in Callers, id \in ProductIds, patch \in StorePatches :
            UpdateProductReq(role, id, patch)
    \/ \E role \in Callers, id \in ProductIds : DeleteProductReq(role, id)
    \/ \E body \in {ReceiptBody("R1", <<Item(1, {2}, 8)>>, {8})} :
            CreateReceiptReq("admin", body)
    \/ \E role \in Callers : StatsReqOf(role)
    \/ \E role \in Callers : ProductsReq(role, {}, {})
    \/ \E role \in Callers : ReceiptsReq(role)

SpecAccess == Init /\ [][NextAccess]_vars

\* C25: the product statistics, the admin product listing and the receipts
\* listing are returned only to requests whose session holds a user of role
\* admin; every other request receives an error and none of that data.
C25_AdminOnlyReads ==
    [][LET \* the request is answered with an error and without data
           Refused == resp'.status \in {401, 403} /\ json' = NoJson
       IN  \A role \in Callers \ {"admin"} :
                /\ StatsReqOf(role) => Refused
                /\ ProductsReq(role, {}, {}) => Refused
                /\ ReceiptsReq(role) => Refused]_vars

\* C27: no request made without an authenticated admin session changes the
\* products table: product creation, update and deletion are each performed
\* only for a session whose user has role admin.
C27_AdminOnlyWrites ==
    [][\A role \in Callers \ {"admin"} :
            /\ \A body \in StoreBodies :
                    CreateProductReq("c1", role, body) => products' = products
            /\ \A id \in ProductIds, patch \in StorePatches :
                    UpdateProductReq(role, id, patch) => products' = products
            /\ \A id \in ProductIds :
                    DeleteProductReq(role, id) => products' = products]_vars

(***************************************************************************)
(* SKU generation on a store that stays as it is: between two calls there  *)
(* are only other calls and the turn of the year.                          *)
(***************************************************************************)
\* a category code that no row of categories has
UnknownCode == <<"Z", "Z", "Z">>

GenerateCodes == {ELC, UnknownCode}

InitGenerate ==
    /\ \E n \in 0..MaxProductId, k \in 0..1 :
            /\ products = BulkStore(n, n - k)
            /\ seq = [t \in Tables |-> IF t = "products" THEN n
                                       ELSE IF t = "categories" THEN 6 ELSE 0]
    /\ productImages = {}
    /\ productReviews = {}
    /\ wishlist = {}
    /\ receipts = {}
    /\ receiptItems = {}
    /\ categories = SeededCategories
    /\ year = StartYear
    /\ now = 0
    /\ generatedSku = [c \in Clients |-> <<>>]
    /\ resp = NoResp
    /\ json = NoJson
    /\ req = NoJson
    /\ calls = {}
    /\ appState = "loading"
    /\ user = {}
    /\ loggingOut = 0
    /\ session = {}

NextGenerate ==
    \/ \E c \in Clients, role \in Callers, category \in GenerateCodes \cup {<<>>} :
            GenerateSkuReq(c, role, category)
    \/ NewYear

SpecGenerate == InitGenerate /\ [][NextGenerate]_vars

\* the SKU that client c holds was generated for the category
HeldFor(c, category) ==
    /\ Len(generatedSku[c]) > Len(category)
    /\ SubSeq(generatedSku[c], 1, Len(category)) = category

\* the year that the SKU of client c ends with
YearOf(c) ==
    DecimalValue(SubSeq(generatedSku[c], Len(generatedSku[c]) - 3,
                        Len(generatedSku[c])))

\* generateSku changes nothing in the store and reserves no sequence
\* number, it succeeds also for a category code that matches no category,
\* and two calls for the same category with no product created, deleted or
\* re-categorised in between return the same SKU.
C29_SameSkuAnyTime ==
    [][\A d \in Clients, category \in GenerateCodes :
            GenerateSkuReq(d, "admin", category)
            => /\ store' = store
               /\ resp'.status = 200
               /\ \A c \in Clients :
                    HeldFor(c, category)
                    => generatedSku'[d] = generatedSku[c]]_vars

\* C29, amended: generateSku changes nothing in the store and reserves no
\* sequence number, it succeeds also for a category code that matches no
\* category, and two calls for the same category in the same calendar year
\* with no product created, deleted or re-categorised in between return
\* the same SKU.
C29_GenerateSkuReadOnly ==
    [][\A d \in Clients, category \in GenerateCodes :
            GenerateSkuReq(d, "admin", category)
            => /\ store' = store
               /\ resp'.status = 200
               /\ \A c \in Clients :
                    (HeldFor(c, category) /\ YearOf(c) = year)
                    => generatedSku'[d] = generatedSku[c]]_vars

\* two clients hold the SKU of a code that matches no category, one from
\* the call after the other's
C29_Witness ==
    /\ resp.op = "generateSku"
    /\ resp.status = 200
    /\ \A c \in categories : c.code # UnknownCode
    /\ HeldFor("c1", UnknownCode)
    /\ generatedSku["c2"] = generatedSku["c1"]
    /\ YearOf("c1") = year

(***************************************************************************)
(* The client App: which page is shown, and for whom.                      *)
(***************************************************************************)
MaxLogouts == 2

\* the users that the server knows: { username, role }
Users == [username : {"admin", "ann"}, role : Roles]

InitApp ==
    /\ products = {}
    /\ productImages = {}
    /\ productReviews = {}
    /\ wishlist = {}
    /\ receipts = {}
    /\ receiptItems = {}
    /\ categories = SeededCategories
    /\ seq = [t \in Tables |-> IF t = "categories" THEN 6 ELSE 0]
    /\ year = StartYear
    /\ now = 0
    /\ generatedSku = [c \in Clients |-> <<>>]
    /\ resp = NoResp
    /\ json = NoJson
    /\ req = NoJson
    /\ calls = {}
    /\ appState = "loading"
    /\ user = {}
    /\ loggingOut = 0
    /\ session \in {{}} \cup {{u} : u \in Users}

\* checkAuth of the mount effect, when its fetch of GET /api/auth/user has
\* settled: answered with the session's user, answered 401, or failed
checkAuth(reached) ==
    /\ appState = "loading"
    /\ IF reached /\ session # {}
       THEN /\ user' = session
            /\ appState' = "home"
            /\ resp' = Respond("authUser", 200, "none", 0, FALSE)
       ELSE /\ appState' = "login"
            /\ resp' = Respond("authUser", IF reached THEN 401 ELSE 0, "none",
                               0, FALSE)
            /\ UNCHANGED user
    /\ json' = NoJson
    /\ UNCHANGED <<store, year, now, req, generatedSku, calls, loggingOut,
                   session>>

\* POST /api/auth/login answered with a user, and handleLoginSuccess, which
\* the login page calls with that user
handleLoginSuccess(userData) ==
    /\ appState = "login"
    /\ session' = {userData}
    /\ user' = {userData}
    /\ appState' = "home"
    /\ resp' = Respond("login", 200, "none", 0, FALSE)
    /\ json' = NoJson
    /\ UNCHANGED <<store, year, now, req, generatedSku, calls, loggingOut>>

\* the home page is rendered: appState === 'home' && user
HomeShown == appState = "home" /\ user # {}

\* the admin panel is rendered: appState === 'admin' && user
AdminShown == appState = "admin" /\ user # {}

\* a mutant of NavigateOffered: the home page has the Admin Panel card for
\* every user
NavigateOfferedToAll(page) == HomeShown

\* the home page's cards: Product Catalog for every user, Admin Panel when
\* user.role === 'admin'
NavigateOffered(page) ==
    /\ HomeShown
    /\ page = "admin" => \E u \in user : u.role = "admin"

\* handleNavigate, called by the cards of the home page
handleNavigate(page) ==
    /\ NavigateOffered(page)
    /\ appState' = page
    /\ UNCHANGED <<store, year, now, req, generatedSku, calls, user,
                   loggingOut, session, resp, json>>

\* handleBackToHome, called by the admin panel's and the catalog's button
handleBackToHome ==
    /\ AdminShown \/ appState = "catalog"
    /\ appState' = "home"
    /\ UNCHANGED <<store, year, now, req, generatedSku, calls, user,
                   loggingOut, session, resp, json>>

\* handleLogout up to its await: the fetch of POST /api/auth/logout is sent
handleLogout ==
    /\ HomeShown \/ AdminShown
    /\ loggingOut < MaxLogouts
    /\ loggingOut' = loggingOut + 1
    /\ UNCHANGED <<store, year, now, req, generatedSku, calls, appState, user,
                   session, resp, json>>

\* handleLogout after its await: the request destroyed the session, or it
\* failed and the catch block logged the error; then setUser(null) and
\* setAppState('login')
handleLogoutSettled(ok) ==
    /\ loggingOut > 0
    /\ loggingOut' = loggingOut - 1
    /\ session' = IF ok THEN {} ELSE session
    /\ resp' = Respond("logout", IF ok THEN 200 ELSE 500, "none", 0, FALSE)
    /\ json' = NoJson
    /\ user' = {}
    /\ appState' = "login"
    /\ UNCHANGED <<store, year, now, req, generatedSku, calls>>

\* the role that requireAdmin finds in the session of the browser's requests
SessionRole ==
    IF session = {} THEN "none" ELSE (CHOOSE u \in session : TRUE).role

\* the product table of the admin panel fetches GET /api/products
DashboardFetch ==
    /\ AdminShown
    /\ ProductsReq(SessionRole, {}, {})

\* the catalog page fetches GET /api/catalog/products
CatalogFetch ==
    /\ appState = "catalog"
    /\ CatalogProductsReq(NoFilters)

NextApp ==
    \/ DashboardFetch
    \/ CatalogFetch
    \/ \E reached \in BOOLEAN : checkAuth(reached)
    \/ \E userData \in Users : handleLoginSuccess(userData)
    \/ \E page \in {"admin", "catalog"} : handleNavigate(page)
    \/ handleBackToHome
    \/ handleLogout
    \/ \E ok \in BOOLEAN : handleLogoutSettled(ok)

SpecApp == InitApp /\ [][NextApp]_vars

\* C30: in the client App, after any sequence of auth-check results, login
\* successes, navigations, back-to-home and logout events, the admin panel
\* is shown only while a user is set whose role is admin, the home, admin
\* and catalog states are entered only while a user is set, and a logout
\* always ends in state login with no user, also when its request fails.
C30_AppStates ==
    [][/\ AdminShown' => \E u \in user' : u.role = "admin"
       /\ appState' \in {"home", "admin", "catalog"} => user' # {}
       /\ \A ok \in BOOLEAN :
            handleLogoutSettled(ok) => appState' = "login" /\ user' = {}]_vars

\* a logout whose request failed has ended on the login page with no user,
\* while the session lives on
C30_Witness ==
    /\ resp.op = "logout"
    /\ resp.status = 500
    /\ appState = "login"
    /\ user = {}
    /\ session # {}

(***************************************************************************)
(* addToWishlist calls in flight together.                                 *)
(***************************************************************************)
NextWishlistCalls ==
    \/ \E body \in StoreBodies : CreateProductReq("c1", "admin", body)
    \/ \E c \in Clients, sessionId \in WishlistSessions \cup {""},
          id \in ProductIds \cup {0} : AddToWishlistSelect(c, sessionId, id)
    \/ \E c \in Clients : AddToWishlistInsert(c)
    \/ \E sessionId \in WishlistSessions, id \in ProductIds :
            RemoveFromWishlistReq(sessionId, id)

SpecWishlistCalls == Init /\ [][NextWishlistCalls]_vars

\* C21: in every reachable state, also after addToWishlist calls for the
\* same pair whose select and insert interleave, the wishlist holds at most
\* one row per (sessionId, productId) pair.
C21_OneRowPerPair ==
    \A a, b \in wishlist :
        (a.sessionId = b.sessionId /\ a.productId = b.productId) => a = b

\* what removeFromWishlist(sessionId, productId) answers and leaves behind
RemoveReportsDeletion(sessionId, productId) ==
    LET pair(w) == w.sessionId = sessionId /\ w.productId = productId
        existed == \E w \in wishlist : pair(w)
    IN  (resp'.op = "removeFromWishlist" /\ resp'.status = 200
            /\ RemoveFromWishlistReq(sessionId, productId))
        => /\ json'.success = existed
           /\ existed => /\ wishlist' # wishlist
                         /\ \A w \in wishlist' : ~pair(w)
           /\ ~existed => wishlist' = wishlist
           /\ {w \in wishlist' : ~pair(w)} = {w \in wishlist : ~pair(w)}

\* C22: removeFromWishlist(sessionId, productId) returns true exactly when
\* a row of that pair existed and was deleted; for a pair that is not in the
\* wishlist it returns false and leaves the wishlist as it is; rows of other
\* pairs are untouched in both cases.
C22_RemoveReports ==
    [][\A sessionId \in WishlistSessions, productId \in ProductIds :
            RemoveReportsDeletion(sessionId, productId)]_vars

\* a removal answered true while the row of another pair stays
C22_Witness ==
    /\ resp.op = "removeFromWishlist"
    /\ json = [success |-> TRUE]
    /\ wishlist # {}

====
